---- MODULE Spec2Model ----
(***************************************************************************)
(* TuneCheck (src/main.py): the FastAPI endpoints over the SQLAlchemy      *)
(* tables users, songs, playlists, playlist_songs and reviews, as a state  *)
(* machine.  One action per endpoint; a request is atomic (one session,    *)
(* one commit).  `last` records the last request and its response.         *)
(*                                                                         *)
(* Store semantics that the endpoints rely on and that are modelled here:  *)
(*  - an INTEGER PRIMARY KEY without AUTOINCREMENT gets max(id)+1, so the  *)
(*    id of a deleted last row is handed out again;                        *)
(*  - db.delete(parent) on a one-to-many relationship without a delete     *)
(*    cascade (Song.reviews, User.playlists) sets the children's foreign   *)
(*    key to NULL; on a many-to-many relationship (secondary=              *)
(*    playlist_songs) it deletes the association rows of the parent;       *)
(*  - Review.user_id has no relationship on User, so it is left as it is;  *)
(*  - a query without ORDER BY scans in id order;                          *)
(*  - x NOT IN (.., NULL) is never true.                                   *)
(* Columns without any logic on them (Review.comment,                      *)
(* Song.date_of_publication) are left out of the rows.                     *)
(***************************************************************************)
EXTENDS Integers, Sequences, FiniteSets, TLC

\* users:          rows [id, username, password_hash, role]      (class User)
\* songs:          rows [id, title, album, genre, singer, length] (class Song)
\* playlists:      rows [id, name, user_id]                       (class Playlist)
\* playlist_songs: rows [playlist_id, song_id]          (table playlist_songs)
\* reviews:        rows [id, user_id, song_id, rating]            (class Review)
\* last:           the last request and the response to it
\* issued:         the bearer tokens that login has handed out to clients,
\*                 each with the id of the user it was handed out for
VARIABLES users, songs, playlists, playlist_songs, reviews, last, issued

vars == <<users, songs, playlists, playlist_songs, reviews, last, issued>>

store == <<users, songs, playlists, playlist_songs, reviews>>

(***************************************************************************)
(* Bounds of the model and input domains.                                  *)
(***************************************************************************)
MaxUserId == 2

MaxSongId == 1

MaxPlaylistId == 1

MaxReviewId == 1

Usernames == {"a", "b"}

Passwords == {"p"}

Roles == {"User", "Admin"}

Titles == {"t1", "t2"}

Singers == {"s1"}

Albums == {"al1"}

Genres == {"Rock", "Pop"}

Lengths == {1}

PlaylistNames == {"n1", "n2"}

\* the ratings around both ends of the valid range
Ratings == {0, 1, 5, 6}

Songs(titles, genres) ==
  [title : titles, singer : Singers, album : Albums, genre : genres,
   length : Lengths]

SongInputs == Songs(Titles, {"Rock"})

UserIds == 1..MaxUserId

SongIds == 1..MaxSongId

PlaylistIds == 1..MaxPlaylistId

(***************************************************************************)
(* The store.                                                              *)
(***************************************************************************)
\* SQL NULL in a nullable integer column (ids start at 1)
NULL == 0

Max(S) == CHOOSE x \in S : \A y \in S : y <= x

Min2(a, b) == IF a <= b THEN a ELSE b

\* the id SQLite gives the next inserted row of a table
NextId(table) == IF table = {} THEN 1 ELSE Max({r.id : r \in table}) + 1

hash_password(password) == <<"sha256", password>>

\* db.query(T).filter(T.id == id).first()
Exists(table, id) == \E r \in table : r.id = id

Row(table, id) == CHOOSE r \in table : r.id = id

\* the rows of a table in scan (id) order
RECURSIVE ById(_)
ById(table) ==
  IF table = {} THEN <<>>
  ELSE LET r == CHOOSE x \in table : \A y \in table : x.id <= y.id
       IN  <<r>> \o ById(table \ {r})

\* .limit(n)
Limit(seq, n) == SubSeq(seq, 1, Min2(n, Len(seq)))

Ids(seq) == [i \in 1..Len(seq) |-> seq[i].id]

(***************************************************************************)
(* Responses.                                                              *)
(***************************************************************************)
\* a request without a body
NoInput == [none |-> TRUE]

NoRequest ==
  [op |-> "none", token |-> "", target |-> 0, arg |-> 0, input |-> NoInput,
   status |-> 0, detail |-> "", result |-> <<>>, genre |-> "",
   access_token |-> ""]

Response(op, token, target, arg, input, status, detail) ==
  [op |-> op, token |-> token, target |-> target, arg |-> arg, input |-> input,
   status |-> status, detail |-> detail, result |-> <<>>, genre |-> "",
   access_token |-> ""]

\* raise HTTPException(...): the session is closed without a commit
HTTPException(op, token, target, arg, input, status, detail) ==
  /\ last' = Response(op, token, target, arg, input, status, detail)
  /\ UNCHANGED <<store, issued>>

\* a successful return
Return(op, token, target, arg, input) ==
  /\ last' = Response(op, token, target, arg, input, 200, "")
  /\ UNCHANGED issued

(***************************************************************************)
(* Auth gate.                                                              *)
(***************************************************************************)
Authenticated(token) == \E u \in users : u.username = token

get_current_user(token) == CHOOSE u \in users : u.username = token

\* the role check left out
IsAdmin_NoCheck(current_user) == TRUE

IsAdmin(current_user) == current_user.role = "Admin"

\* self and admin required together
SelfOrAdmin_Both(current_user, user_id) ==
  ~(current_user.id # user_id \/ current_user.role # "Admin")

\* the guard of update_user and delete_user
SelfOrAdmin(current_user, user_id) ==
  ~(current_user.id # user_id /\ current_user.role # "Admin")

(***************************************************************************)
(* User endpoints.                                                         *)
(***************************************************************************)
create_user(username, password, role) ==
  LET input == [username |-> username, password |-> password, role |-> role] IN
  IF \E u \in users : u.username = username
  THEN HTTPException("create_user", "", 0, 0, input, 400,
                     "User with this username already exists")
  ELSE /\ users' = users \cup
            {[id |-> NextId(users), username |-> username,
              password_hash |-> hash_password(password), role |-> role]}
       /\ Return("create_user", "", NextId(users), 0, input)
       /\ UNCHANGED <<songs, playlists, playlist_songs, reviews>>

login(username, password) ==
  LET input == [username |-> username, password |-> password] IN
  IF ~(\E u \in users : u.username = username)
  THEN HTTPException("login", "", 0, 0, input, 404, "User doesn't exist")
  ELSE LET user == CHOOSE u \in users : u.username = username IN
       IF user.password_hash # hash_password(password)
       THEN HTTPException("login", "", 0, 0, input, 400,
                          "Incorrect username or password")
       ELSE /\ last' = [Response("login", "", user.id, 0, input, 200, "")
                          EXCEPT !.access_token = user.username]
            \* the client now holds the token
            /\ issued' = issued \cup {<<user.username, user.id>>}
            /\ UNCHANGED store

update_user(token, user_id, username, password) ==
  LET input == [username |-> username, password |-> password] IN
  IF ~Authenticated(token)
  THEN HTTPException("update_user", token, user_id, 0, input, 404,
                     "Invalid credentials")
  ELSE
  LET current_user == get_current_user(token) IN
  IF ~SelfOrAdmin(current_user, user_id)
  THEN HTTPException("update_user", token, user_id, 0, input, 403,
                     "Not authorized to update this user")
  ELSE IF ~Exists(users, user_id)
  THEN HTTPException("update_user", token, user_id, 0, input, 404,
                     "User doesn't exist")
  ELSE
  LET db_user == Row(users, user_id)
      u1 == IF username # "" THEN [db_user EXCEPT !.username = username]
            ELSE db_user
      u2 == IF password # ""
            THEN [u1 EXCEPT !.password_hash = hash_password(password)]
            ELSE u1
  IN
  \* db.commit(): users.username is UNIQUE; the IntegrityError is not caught
  IF \E u \in users : u.id # user_id /\ u.username = u2.username
  THEN HTTPException("update_user", token, user_id, 0, input, 500,
                     "IntegrityError")
  ELSE /\ users' = (users \ {db_user}) \cup {u2}
       /\ Return("update_user", token, user_id, 0, input)
       /\ UNCHANGED <<songs, playlists, playlist_songs, reviews>>

delete_user(token, user_id) ==
  IF ~Authenticated(token)
  THEN HTTPException("delete_user", token, user_id, 0, NoInput, 404,
                     "Invalid credentials")
  ELSE
  LET current_user == get_current_user(token) IN
  IF ~SelfOrAdmin(current_user, user_id)
  THEN HTTPException("delete_user", token, user_id, 0, NoInput, 403,
                     "Not authorized to update this user")
  ELSE IF ~Exists(users, user_id)
  THEN HTTPException("delete_user", token, user_id, 0, NoInput, 404,
                     "User doesn't exist")
  ELSE /\ users' = {u \in users : u.id # user_id}
       \* User.playlists has no delete cascade: the children are detached
       /\ playlists' = {IF p.user_id = user_id
                        THEN [p EXCEPT !.user_id = NULL] ELSE p : p \in playlists}
       /\ Return("delete_user", token, user_id, 0, NoInput)
       /\ UNCHANGED <<songs, playlist_songs, reviews>>

(***************************************************************************)
(* Song endpoints.                                                         *)
(***************************************************************************)
\* add_song's duplicate query: title, singer and album all equal
SameSong(s, song) ==
  s.title = song.title /\ s.singer = song.singer /\ s.album = song.album

add_song(token, song) ==
  IF ~Authenticated(token)
  THEN HTTPException("add_song", token, 0, 0, song, 404, "Invalid credentials")
  ELSE
  LET current_user == get_current_user(token) IN
  IF ~IsAdmin(current_user)
  THEN HTTPException("add_song", token, 0, 0, song, 403,
                     "You don't have rights to add new songs")
  ELSE IF \E s \in songs : SameSong(s, song)
  THEN HTTPException("add_song", token, 0, 0, song, 400,
                     "This song is already added")
  ELSE /\ songs' = songs \cup
            {[id |-> NextId(songs), title |-> song.title, album |-> song.album,
              genre |-> song.genre, singer |-> song.singer,
              length |-> song.length]}
       /\ Return("add_song", token, NextId(songs), 0, song)
       /\ UNCHANGED <<users, playlists, playlist_songs, reviews>>

update_song(token, song_id, song_update) ==
  IF ~Authenticated(token)
  THEN HTTPException("update_song", token, song_id, 0, song_update, 404,
                     "Invalid credentials")
  ELSE
  LET current_user == get_current_user(token) IN
  IF ~IsAdmin(current_user)
  THEN HTTPException("update_song", token, song_id, 0, song_update, 403,
                     "Not authorized to update this song")
  ELSE IF ~Exists(songs, song_id)
  THEN HTTPException("update_song", token, song_id, 0, song_update, 404,
                     "Song doesn't exist")
  ELSE /\ songs' = (songs \ {Row(songs, song_id)}) \cup
            {[id |-> song_id, title |-> song_update.title,
              album |-> song_update.album, genre |-> song_update.genre,
              singer |-> song_update.singer, length |-> song_update.length]}
       /\ Return("update_song", token, song_id, 0, song_update)
       /\ UNCHANGED <<users, playlists, playlist_songs, reviews>>

\* the song row deleted and nothing else touched
delete_song_RowOnly(token, song_id) ==
  IF ~Authenticated(token)
  THEN HTTPException("delete_song", token, song_id, 0, NoInput, 404,
                     "Invalid credentials")
  ELSE IF ~IsAdmin(get_current_user(token))
  THEN HTTPException("delete_song", token, song_id, 0, NoInput, 403,
                     "Not authorized to delete this song")
  ELSE IF ~Exists(songs, song_id)
  THEN HTTPException("delete_song", token, song_id, 0, NoInput, 404,
                     "Song doesn't exist")
  ELSE /\ songs' = {s \in songs : s.id # song_id}
       /\ Return("delete_song", token, song_id, 0, NoInput)
       /\ UNCHANGED <<users, playlists, playlist_songs, reviews>>

delete_song(token, song_id) ==
  IF ~Authenticated(token)
  THEN HTTPException("delete_song", token, song_id, 0, NoInput, 404,
                     "Invalid credentials")
  ELSE
  LET current_user == get_current_user(token) IN
  IF ~IsAdmin(current_user)
  THEN HTTPException("delete_song", token, song_id, 0, NoInput, 403,
                     "Not authorized to delete this song")
  ELSE IF ~Exists(songs, song_id)
  THEN HTTPException("delete_song", token, song_id, 0, NoInput, 404,
                     "Song doesn't exist")
  ELSE /\ songs' = {s \in songs : s.id # song_id}
       \* Song.reviews has no delete cascade: the children are detached
       /\ reviews' = {IF r.song_id = song_id
                      THEN [r EXCEPT !.song_id = NULL] ELSE r : r \in reviews}
       \* Song.playlists is many-to-many: its association rows are deleted
       /\ playlist_songs' = {m \in playlist_songs : m.song_id # song_id}
       /\ Return("delete_song", token, song_id, 0, NoInput)
       /\ UNCHANGED <<users, playlists>>

(***************************************************************************)
(* Playlist endpoints.                                                     *)
(***************************************************************************)
\* the ownership test with an admin override
NotOwner_AdminOverride(playlist, current_user) ==
  playlist.user_id # current_user.id /\ current_user.role # "Admin"

\* the ownership test of add_song_to_pl, update_playlist, delete_playlist
NotOwner(playlist, current_user) == playlist.user_id # current_user.id

\* the duplicate query on the name alone
ExistPlaylist_AnyOwner(name, current_user) ==
  \E p \in playlists : p.name = name

\* the duplicate query of create_playlist and update_playlist
ExistPlaylist(name, current_user) ==
  \E p \in playlists : p.name = name /\ p.user_id = current_user.id

create_playlist(token, name) ==
  LET input == [name |-> name] IN
  IF ~Authenticated(token)
  THEN HTTPException("create_playlist", token, 0, 0, input, 404,
                     "Invalid credentials")
  ELSE
  LET current_user == get_current_user(token) IN
  IF ExistPlaylist(name, current_user)
  THEN HTTPException("create_playlist", token, 0, 0, input, 400,
                     "PLaylist with this name already exists in your library")
  ELSE /\ playlists' = playlists \cup
            {[id |-> NextId(playlists), name |-> name,
              user_id |-> current_user.id]}
       /\ Return("create_playlist", token, NextId(playlists), 0, input)
       /\ UNCHANGED <<users, songs, playlist_songs, reviews>>

add_song_to_pl(token, playlist_id, song_id) ==
  IF ~Authenticated(token)
  THEN HTTPException("add_song_to_pl", token, playlist_id, song_id, NoInput,
                     404, "Invalid credentials")
  ELSE
  LET current_user == get_current_user(token) IN
  IF ~Exists(playlists, playlist_id)
  THEN HTTPException("add_song_to_pl", token, playlist_id, song_id, NoInput,
                     404, "PLaylist doesn't exist")
  ELSE IF NotOwner(Row(playlists, playlist_id), current_user)
  THEN HTTPException("add_song_to_pl", token, playlist_id, song_id, NoInput,
                     403, "Not your playlist to add song to")
  ELSE IF ~Exists(songs, song_id)
  THEN HTTPException("add_song_to_pl", token, playlist_id, song_id, NoInput,
                     404, "Song you want to add doesn't exist")
  ELSE IF [playlist_id |-> playlist_id, song_id |-> song_id] \in playlist_songs
  THEN HTTPException("add_song_to_pl", token, playlist_id, song_id, NoInput,
                     400, "Song is already in playlist")
  ELSE /\ playlist_songs' = playlist_songs \cup
            {[playlist_id |-> playlist_id, song_id |-> song_id]}
       /\ Return("add_song_to_pl", token, playlist_id, song_id, NoInput)
       /\ UNCHANGED <<users, songs, playlists, reviews>>

update_playlist(token, playlist_id, name) ==
  LET input == [name |-> name] IN
  IF ~Authenticated(token)
  THEN HTTPException("update_playlist", token, playlist_id, 0, input, 404,
                     "Invalid credentials")
  ELSE
  LET current_user == get_current_user(token) IN
  IF ~Exists(playlists, playlist_id)
  THEN HTTPException("update_playlist", token, playlist_id, 0, input, 404,
                     "PLaylist doesn't exist")
  ELSE IF NotOwner(Row(playlists, playlist_id), current_user)
  THEN HTTPException("update_playlist", token, playlist_id, 0, input, 403,
                     "Not your playlist to add song to")
  ELSE IF ExistPlaylist(name, current_user)
  THEN HTTPException("update_playlist", token, playlist_id, 0, input, 400,
                     "PLaylist with this name already exists")
  ELSE /\ playlists' = (playlists \ {Row(playlists, playlist_id)}) \cup
            {[Row(playlists, playlist_id) EXCEPT !.name = name]}
       /\ Return("update_playlist", token, playlist_id, 0, input)
       /\ UNCHANGED <<users, songs, playlist_songs, reviews>>

\* the playlist looked up before the credential is resolved
delete_playlist_ExistenceFirst(token, playlist_id) ==
  IF ~Exists(playlists, playlist_id)
  THEN HTTPException("delete_playlist", token, playlist_id, 0, NoInput, 404,
                     "PLaylist doesn't exist")
  ELSE IF ~Authenticated(token)
  THEN HTTPException("delete_playlist", token, playlist_id, 0, NoInput, 404,
                     "Invalid credentials")
  ELSE IF NotOwner(Row(playlists, playlist_id), get_current_user(token))
  THEN HTTPException("delete_playlist", token, playlist_id, 0, NoInput, 403,
                     "Not authorized to delete this playlist")
  ELSE /\ playlists' = {p \in playlists : p.id # playlist_id}
       /\ playlist_songs' =
            {m \in playlist_songs : m.playlist_id # playlist_id}
       /\ Return("delete_playlist", token, playlist_id, 0, NoInput)
       /\ UNCHANGED <<users, songs, reviews>>

delete_playlist(token, playlist_id) ==
  IF ~Authenticated(token)
  THEN HTTPException("delete_playlist", token, playlist_id, 0, NoInput, 404,
                     "Invalid credentials")
  ELSE
  LET current_user == get_current_user(token) IN
  IF ~Exists(playlists, playlist_id)
  THEN HTTPException("delete_playlist", token, playlist_id, 0, NoInput, 404,
                     "PLaylist doesn't exist")
  ELSE IF NotOwner(Row(playlists, playlist_id), current_user)
  THEN HTTPException("delete_playlist", token, playlist_id, 0, NoInput, 403,
                     "Not authorized to delete this playlist")
  ELSE /\ playlists' = {p \in playlists : p.id # playlist_id}
       \* Playlist.songs is many-to-many: its association rows are deleted
       /\ playlist_songs' =
            {m \in playlist_songs : m.playlist_id # playlist_id}
       /\ Return("delete_playlist", token, playlist_id, 0, NoInput)
       /\ UNCHANGED <<users, songs, reviews>>

(***************************************************************************)
(* Review endpoint.                                                        *)
(***************************************************************************)
\* the duplicate query on Review.id in place of Review.song_id
ExistReview_ById(current_user, exist_song) ==
  \E r \in reviews : r.user_id = current_user.id /\ r.id = exist_song.id

\* create_review's duplicate query
ExistReview(current_user, exist_song) ==
  \E r \in reviews : r.user_id = current_user.id /\ r.song_id = exist_song.id

\* the lower end of the range off by one
RatingOutOfRange_FromZero(rating) == rating < 0 \/ rating > 5

\* create_review's rating validation
RatingOutOfRange(rating) == rating < 1 \/ rating > 5

\* the review stored and committed before its rating is validated
create_review_StoredFirst(token, song_id, rating) ==
  IF ~Authenticated(token)
  THEN HTTPException("create_review", token, song_id, rating, NoInput, 404,
                     "Invalid credentials")
  ELSE
  LET current_user == get_current_user(token) IN
  IF ~Exists(songs, song_id)
  THEN HTTPException("create_review", token, song_id, rating, NoInput, 404,
                     "Song not found")
  ELSE IF ExistReview(current_user, Row(songs, song_id))
  THEN HTTPException("create_review", token, song_id, rating, NoInput, 400,
                     "YOu have already written a review for this song")
  ELSE /\ reviews' = reviews \cup
            {[id |-> NextId(reviews), user_id |-> current_user.id,
              song_id |-> song_id, rating |-> rating]}
       /\ last' = IF RatingOutOfRange(rating)
                  THEN Response("create_review", token, song_id, rating,
                                NoInput, 400, "Rating must be between 1 and 5")
                  ELSE Response("create_review", token, song_id, rating,
                                NoInput, 200, "")
       /\ UNCHANGED <<users, songs, playlists, playlist_songs, issued>>

create_review(token, song_id, rating) ==
  IF ~Authenticated(token)
  THEN HTTPException("create_review", token, song_id, rating, NoInput, 404,
                     "Invalid credentials")
  ELSE
  LET current_user == get_current_user(token) IN
  IF ~Exists(songs, song_id)
  THEN HTTPException("create_review", token, song_id, rating, NoInput, 404,
                     "Song not found")
  ELSE IF ExistReview(current_user, Row(songs, song_id))
  THEN HTTPException("create_review", token, song_id, rating, NoInput, 400,
                     "YOu have already written a review for this song")
  ELSE IF RatingOutOfRange(rating)
  THEN HTTPException("create_review", token, song_id, rating, NoInput, 400,
                     "Rating must be between 1 and 5")
  ELSE /\ reviews' = reviews \cup
            {[id |-> NextId(reviews), user_id |-> current_user.id,
              song_id |-> song_id, rating |-> rating]}
       /\ Return("create_review", token, song_id, rating, NoInput)
       /\ UNCHANGED <<users, songs, playlists, playlist_songs>>

(***************************************************************************)
(* Recommendations.                                                        *)
(***************************************************************************)
\* get_top_rated: the user's reviews with rating >= 4, in scan order
get_top_rated(current_user) ==
  ById({r \in reviews : r.user_id = current_user.id /\ r.rating >= 4})

\* review.song is None when the review's song_id matches no song
HasSong(review) == Exists(songs, review.song_id)

\* Counter(genres): its keys, in the order they were first counted
RECURSIVE CounterKeys(_)
CounterKeys(genres) ==
  IF genres = <<>> THEN <<>>
  ELSE LET front == CounterKeys(SubSeq(genres, 1, Len(genres) - 1))
           g == genres[Len(genres)]
       IN  IF \E i \in 1..Len(front) : front[i] = g THEN front
           ELSE Append(front, g)

Count(genres, g) == Cardinality({i \in 1..Len(genres) : genres[i] = g})

\* a later item replaces the best when it is as frequent
RECURSIVE MaxByCount_LastWins(_, _, _)
MaxByCount_LastWins(keys, genres, best) ==
  IF keys = <<>> THEN best
  ELSE MaxByCount_LastWins(Tail(keys), genres,
                           IF Count(genres, Head(keys)) >= Count(genres, best)
                           THEN Head(keys) ELSE best)

\* max(items, key=count): a later item replaces the best only when greater
RECURSIVE MaxByCount(_, _, _)
MaxByCount(keys, genres, best) ==
  IF keys = <<>> THEN best
  ELSE MaxByCount(Tail(keys), genres,
                  IF Count(genres, Head(keys)) > Count(genres, best)
                  THEN Head(keys) ELSE best)

\* Counter(genres).most_common(1)[0][0]
most_common(genres) ==
  LET keys == CounterKeys(genres) IN MaxByCount(Tail(keys), genres, Head(keys))

\* rated_songs: the song_id of every review of the user (NULL included)
rated_songs(current_user) ==
  {r.song_id : r \in {x \in reviews : x.user_id = current_user.id}}

\* Song.id.notin_(ids): with a NULL in the list, NOT IN is never true
NotIn(id, ids) == NULL \notin ids /\ id \notin ids

\* the personalized query: genre match, not rated, first three in id order
personalized(most_common_genre, rated) ==
  Limit(ById({s \in songs : s.genre = most_common_genre /\ NotIn(s.id, rated)}),
        3)

\* the groups of GROUP BY Review.song_id (NULL is a group of its own)
ReviewGroups == {r.song_id : r \in reviews}

RECURSIVE SumRating(_)
SumRating(rs) ==
  IF rs = {} THEN 0
  ELSE LET r == CHOOSE x \in rs : TRUE IN r.rating + SumRating(rs \ {r})

GroupSum(g) == SumRating({r \in reviews : r.song_id = g})

GroupCount(g) == Cardinality({r \in reviews : r.song_id = g})

\* avg(rating) of group g is above that of group h
AvgAbove(g, h) == GroupSum(g) * GroupCount(h) > GroupSum(h) * GroupCount(g)

\* the ranking cut after two groups
top_hits_LimitTwo ==
  {ids \in SUBSET ReviewGroups :
     /\ Cardinality(ids) = Min2(2, Cardinality(ReviewGroups))
     /\ \A g \in ids : \A h \in ReviewGroups \ ids : ~AvgAbove(h, g)}

\* ORDER BY avg(rating) DESC LIMIT 3: the order among equal averages is the
\* database's choice, so every admissible top three is an outcome
top_hits ==
  {ids \in SUBSET ReviewGroups :
     /\ Cardinality(ids) = Min2(3, Cardinality(ReviewGroups))
     /\ \A g \in ids : \A h \in ReviewGroups \ ids : ~AvgAbove(h, g)}

\* db.query(Song).filter(Song.id.in_(top_ids)).all()
SongsIn(top_ids) == ById({s \in songs : s.id \in top_ids})

\* the fallback query without its limit
first_songs_NoLimit == ById(songs)

\* db.query(Song).limit(3).all()
first_songs == Limit(ById(songs), 3)

Recommended(token, branch, genre, recommended_songs) ==
  /\ last' = [Response("get_recommendations", token, 0, 0, NoInput, 200, branch)
                EXCEPT !.result = Ids(recommended_songs), !.genre = genre]
  /\ UNCHANGED <<store, issued>>

\* the top hits filtered against the songs the user has rated
get_recommendations_FilteredHits(token) ==
  IF ~Authenticated(token)
  THEN HTTPException("get_recommendations", token, 0, 0, NoInput, 404,
                     "Invalid credentials")
  ELSE
  LET current_user == get_current_user(token)
      top == get_top_rated(current_user)
  IN
  IF \E i \in 1..Len(top) : ~HasSong(top[i])
  THEN HTTPException("get_recommendations", token, 0, 0, NoInput, 500,
                     "AttributeError")
  ELSE
  LET genres == [i \in 1..Len(top) |-> Row(songs, top[i].song_id).genre]
      genre == IF top # <<>> THEN most_common(genres) ELSE ""
      recommended_songs ==
        IF top # <<>> THEN personalized(genre, rated_songs(current_user))
        ELSE <<>>
  IN
  IF recommended_songs # <<>>
  THEN Recommended(token, "personalized", genre, recommended_songs)
  ELSE IF reviews # {}
  THEN \E top_ids \in top_hits :
         Recommended(token, "top_hits", genre,
                     SongsIn(top_ids \ rated_songs(current_user)))
  ELSE Recommended(token, "fallback", genre, first_songs)

get_recommendations(token) ==
  IF ~Authenticated(token)
  THEN HTTPException("get_recommendations", token, 0, 0, NoInput, 404,
                     "Invalid credentials")
  ELSE
  LET current_user == get_current_user(token)
      top == get_top_rated(current_user)
  IN
  \* review.song.genre on a review whose song is None
  IF \E i \in 1..Len(top) : ~HasSong(top[i])
  THEN HTTPException("get_recommendations", token, 0, 0, NoInput, 500,
                     "AttributeError")
  ELSE
  LET genres == [i \in 1..Len(top) |-> Row(songs, top[i].song_id).genre]
      genre == IF top # <<>> THEN most_common(genres) ELSE ""
      recommended_songs ==
        IF top # <<>> THEN personalized(genre, rated_songs(current_user))
        ELSE <<>>
  IN
  IF recommended_songs # <<>>
  THEN Recommended(token, "personalized", genre, recommended_songs)
  ELSE IF reviews # {}
  THEN \E top_ids \in top_hits :
         Recommended(token, "top_hits", genre, SongsIn(top_ids))
  ELSE Recommended(token, "fallback", genre, first_songs)

(***************************************************************************)
(* The API as a state machine.                                             *)
(***************************************************************************)
Tokens == Usernames

\* an empty username or password leaves the field as it is in update_user
Blank == {""}

\* a password no user was registered with
WrongPasswords == {"x"}

IdsWithin(table, n) == \A r \in table : r.id <= n

Init ==
  /\ users = {}
  /\ songs = {}
  /\ playlists = {}
  /\ playlist_songs = {}
  /\ reviews = {}
  /\ last = NoRequest
  /\ issued = {}

Register ==
  \E username \in Usernames, password \in Passwords, role \in Roles :
    /\ create_user(username, password, role)
    /\ IdsWithin(users', MaxUserId)

Login ==
  \E username \in Usernames, password \in Passwords \cup WrongPasswords :
    login(username, password)

UpdateUser ==
  \E token \in Tokens, user_id \in UserIds,
     username \in Usernames \cup Blank, password \in Passwords \cup Blank :
    update_user(token, user_id, username, password)

DeleteUser ==
  \E token \in Tokens, user_id \in UserIds : delete_user(token, user_id)

AddSong(inputs, max) ==
  \E token \in Tokens, song \in inputs :
    /\ add_song(token, song)
    /\ IdsWithin(songs', max)

UpdateSong(inputs, max) ==
  \E token \in Tokens, song_id \in 1..max, song \in inputs :
    update_song(token, song_id, song)

DeleteSong(max) ==
  \E token \in Tokens, song_id \in 1..max : delete_song(token, song_id)

CreatePlaylist ==
  \E token \in Tokens, name \in PlaylistNames :
    /\ create_playlist(token, name)
    /\ IdsWithin(playlists', MaxPlaylistId)

AddSongToPl ==
  \E token \in Tokens, playlist_id \in PlaylistIds, song_id \in SongIds :
    add_song_to_pl(token, playlist_id, song_id)

UpdatePlaylist ==
  \E token \in Tokens, playlist_id \in PlaylistIds, name \in PlaylistNames :
    update_playlist(token, playlist_id, name)

DeletePlaylist ==
  \E token \in Tokens, playlist_id \in PlaylistIds :
    delete_playlist(token, playlist_id)

CreateReview(song_ids, ratings, max) ==
  \E token \in Tokens, song_id \in song_ids, rating \in ratings :
    /\ create_review(token, song_id, rating)
    /\ IdsWithin(reviews', max)

GetRecommendations == \E token \in Tokens : get_recommendations(token)

\* every endpoint that writes to the store, and get_recommendations; login,
\* which hands out tokens, is exercised with the user endpoints in UserSpec
Next ==
  \/ Register
  \/ UpdateUser
  \/ DeleteUser
  \/ AddSong(SongInputs, MaxSongId)
  \/ UpdateSong(SongInputs, MaxSongId)
  \/ DeleteSong(MaxSongId)
  \/ CreatePlaylist
  \/ AddSongToPl
  \/ UpdatePlaylist
  \/ DeletePlaylist
  \/ CreateReview(SongIds, Ratings, MaxReviewId)
  \/ GetRecommendations

Spec == Init /\ [][Next]_vars

(***************************************************************************)
(* Reviews over users and songs that come and go: register, delete_user,   *)
(* add_song, delete_song, create_review and get_recommendations, with two  *)
(* song ids and two review ids.                                            *)
(***************************************************************************)
RevMaxSongId == 2

RevMaxReviewId == 2

\* one rating below the range, one above, one under 4 and one from 4 up
RevRatings == {0, 2, 4, 6}

ReviewNext ==
  \/ Register
  \/ DeleteUser
  \/ AddSong(SongInputs, RevMaxSongId)
  \/ DeleteSong(RevMaxSongId)
  \/ CreateReview(1..RevMaxSongId, RevRatings, RevMaxReviewId)
  \/ GetRecommendations

ReviewSpec == Init /\ [][ReviewNext]_vars

(***************************************************************************)
(* create_review over every rating from 0 to 6, for an admin and a user    *)
(* that are registered and one song that is added and deleted.             *)
(***************************************************************************)
AllRatings == 0..6

RatingMaxReviewId == 2

\* the store after register(a, Admin) and register(b, User)
TwoUsers ==
  {[id |-> 1, username |-> "a", password_hash |-> hash_password("p"),
    role |-> "Admin"],
   [id |-> 2, username |-> "b", password_hash |-> hash_password("p"),
    role |-> "User"]}

RatingInit ==
  /\ users = TwoUsers
  /\ songs = {}
  /\ playlists = {}
  /\ playlist_songs = {}
  /\ reviews = {}
  /\ last = NoRequest
  /\ issued = {}

RatingNext ==
  \/ AddSong(Songs({"t1"}, {"Rock"}), 1)
  \/ DeleteSong(1)
  \/ CreateReview({1}, AllRatings, RatingMaxReviewId)

RatingSpec == RatingInit /\ [][RatingNext]_vars

(***************************************************************************)
(* get_recommendations over a catalog of RecSongs songs of either genre    *)
(* and up to RecMaxReviewId reviews by the two users.                      *)
(***************************************************************************)
RecSongs == 5

RecMaxReviewId == 3

\* a rating under 4 and a top rating
RecRatings == {3, 4}

\* a catalog as add_song and update_song leave it: ids 1..RecSongs, any
\* genres (the first song's is fixed: the code treats all genres alike)
Catalog(genre) ==
  {[id |-> i, title |-> "t1", album |-> "al1", genre |-> genre[i],
    singer |-> "s1", length |-> 1] : i \in 1..RecSongs}

RecInit ==
  /\ users = TwoUsers
  /\ songs \in {Catalog(genre) :
                  genre \in {g \in [1..RecSongs -> Genres] : g[1] = "Rock"}}
  /\ playlists = {}
  /\ playlist_songs = {}
  /\ reviews = {}
  /\ last = NoRequest
  /\ issued = {}

RecNext ==
  \/ CreateReview(1..RecSongs, RecRatings, RecMaxReviewId)
  \/ GetRecommendations

RecSpec == RecInit /\ [][RecNext]_vars

(***************************************************************************)
(* The user endpoints with login: register, login, update_user and         *)
(* delete_user, and the tokens that clients hold.                          *)
(***************************************************************************)
UserNext ==
  \/ Register
  \/ Login
  \/ UpdateUser
  \/ DeleteUser

UserSpec == Init /\ [][UserNext]_vars

(***************************************************************************)
(* The catalog: add_song, update_song and delete_song by the admin and the *)
(* user, over songs of two titles and two genres.                          *)
(***************************************************************************)
CatMaxSongId == 2

CatalogInit ==
  /\ users = TwoUsers
  /\ songs = {}
  /\ playlists = {}
  /\ playlist_songs = {}
  /\ reviews = {}
  /\ last = NoRequest
  /\ issued = {}

CatalogNext ==
  \/ AddSong(Songs(Titles, Genres), CatMaxSongId)
  \/ UpdateSong(Songs(Titles, Genres), CatMaxSongId)
  \/ DeleteSong(CatMaxSongId)

CatalogSpec == CatalogInit /\ [][CatalogNext]_vars

(***************************************************************************)
(* Playlists of the two registered users: create_playlist, update_playlist *)
(* and delete_playlist with up to PlMaxPlaylistId playlists.               *)
(***************************************************************************)
PlMaxPlaylistId == 3

CreatePlaylistUpTo(max) ==
  \E token \in Tokens, name \in PlaylistNames :
    /\ create_playlist(token, name)
    /\ IdsWithin(playlists', max)

UpdatePlaylistUpTo(max) ==
  \E token \in Tokens, playlist_id \in 1..max, name \in PlaylistNames :
    update_playlist(token, playlist_id, name)

DeletePlaylistUpTo(max) ==
  \E token \in Tokens, playlist_id \in 1..max :
    delete_playlist(token, playlist_id)

PlaylistNext ==
  \/ CreatePlaylistUpTo(PlMaxPlaylistId)
  \/ UpdatePlaylistUpTo(PlMaxPlaylistId)
  \/ DeletePlaylistUpTo(PlMaxPlaylistId)

PlaylistSpec == CatalogInit /\ [][PlaylistNext]_vars

(***************************************************************************)
(* get_recommendations beyond the limit of three: a catalog of HitSongs    *)
(* songs, the last of them Pop and the others Rock, and up to              *)
(* HitMaxReviewId reviews by the two users.                                *)
(***************************************************************************)
HitSongs == 4

HitMaxReviewId == 4

\* a rating under 4 and a top rating
HitRatings == {3, 5}

HitTitles == <<"t1", "t2", "t3", "t4", "t5">>

\* the catalog after add_song of HitSongs songs
HitCatalog ==
  {[id |-> i, title |-> HitTitles[i], album |-> "al1",
    genre |-> IF i = HitSongs THEN "Pop" ELSE "Rock",
    singer |-> "s1", length |-> 1] : i \in 1..HitSongs}

HitsInit ==
  /\ users = TwoUsers
  /\ songs = HitCatalog
  /\ playlists = {}
  /\ playlist_songs = {}
  /\ reviews = {}
  /\ last = NoRequest
  /\ issued = {}

HitsNext ==
  \/ CreateReview(1..HitSongs, HitRatings, HitMaxReviewId)
  \/ GetRecommendations

HitsSpec == HitsInit /\ [][HitsNext]_vars

(***************************************************************************)
(* Properties.                                                             *)
(***************************************************************************)
\* the user the request of this step was made by, in the state before it
Actor == get_current_user(last'.token)

\* the user the last request was made by
Requester == get_current_user(last.token)

ReviewsOf(user) == {r \in reviews : r.user_id = user.id}

HasReviewed(user, song_id) == \E r \in ReviewsOf(user) : r.song_id = song_id

\* no two reviews of one user are about the same song
OneReviewPerPair ==
  \A r1, r2 \in reviews :
    (r1.user_id = r2.user_id /\ r1.song_id = r2.song_id /\ r1.song_id # NULL)
      => r1 = r2

\* a second review of a song by the same user is a 400 and stores nothing
DuplicateReviewRejected ==
  (/\ last'.op = "create_review"
   /\ Authenticated(last'.token)
   /\ Exists(songs, last'.target)
   /\ HasReviewed(Actor, last'.target))
    => (last'.status = 400 /\ reviews' = reviews)

\* C1: after any sequence of operations there is at most one review for
\* each (user_id, song_id) pair, and a create_review by a user who already
\* reviewed the song answers 400 and adds no review, whatever its rating.
C1_OneReviewPerUserAndSong ==
  []OneReviewPerPair /\ [][DuplicateReviewRejected]_vars

\* a second review with another rating was refused and the first one is kept
C1_Witness ==
  /\ last.op = "create_review"
  /\ last.status = 400
  /\ Authenticated(last.token)
  /\ \E r \in ReviewsOf(Requester) :
       r.song_id = last.target /\ r.rating # last.arg /\ last.arg \in 1..5

RatingsInRange == \A r \in reviews : r.rating \in 1..5

\* create_review on an existing song the user has not reviewed yet
RatingDecides ==
  (/\ last'.op = "create_review"
   /\ Authenticated(last'.token)
   /\ Exists(songs, last'.target)
   /\ ~HasReviewed(Actor, last'.target))
    => IF last'.arg \in 1..5
       THEN /\ last'.status = 200
            /\ \E r \in reviews' \ reviews :
                 /\ reviews' = reviews \cup {r}
                 /\ r.user_id = Actor.id
                 /\ r.song_id = last'.target
                 /\ r.rating = last'.arg
       ELSE last'.status = 400 /\ store' = store

\* C2: for every rating r, create_review by an authenticated user on an
\* existing song the user has not reviewed succeeds iff 1 <= r <= 5 and is
\* otherwise a 400 that stores nothing; every stored rating is in 1..5.
C2_RatingRange == []RatingsInRange /\ [][RatingDecides]_vars

\* a rating of 6 was refused after a rating of 1 had been stored
C2_Witness ==
  /\ last.op = "create_review"
  /\ last.arg = 6
  /\ last.status = 400
  /\ last.detail = "Rating must be between 1 and 5"
  /\ \E r \in reviews : r.rating = 1

SongOps == {"add_song", "update_song", "delete_song"}

NonAdminRefused ==
  (/\ last'.op \in SongOps
   /\ Authenticated(last'.token)
   /\ Actor.role # "Admin")
    => (last'.status = 403 /\ songs' = songs)

\* C3: for an authenticated actor whose role is not Admin, add_song,
\* update_song and delete_song answer 403 and leave the catalog unchanged,
\* whether or not the target exists or the submitted song is a duplicate.
C3_SongsAdminOnly == [][NonAdminRefused]_vars

\* a non-admin was refused the deletion of a song that exists
C3_Witness ==
  /\ last.op = "delete_song"
  /\ last.status = 403
  /\ Exists(songs, last.target)
  /\ Authenticated(last.token)
  /\ Requester.role = "User"

UserOps == {"update_user", "delete_user"}

SelfOrAdminDecides ==
  (last'.op \in UserOps /\ Authenticated(last'.token))
    => IF Actor.id = last'.target \/ Actor.role = "Admin"
       THEN /\ last'.status # 403
            /\ (last'.op = "delete_user" /\ Exists(users, last'.target))
                 => (last'.status = 200 /\ ~Exists(users', last'.target))
       ELSE last'.status = 403 /\ users' = users

\* C4: update_user and delete_user are allowed when the actor's id is the
\* target id or the actor's role is Admin, and for every other actor they
\* answer 403 and leave all user records unchanged.
C4_SelfOrAdmin == [][SelfOrAdminDecides]_vars

\* an admin deleted another user
C4_Witness ==
  /\ last.op = "delete_user"
  /\ last.status = 200
  /\ Authenticated(last.token)
  /\ Requester.id # last.target
  /\ Requester.role = "Admin"

PlaylistOps == {"update_playlist", "delete_playlist", "add_song_to_pl"}

OnlyOwnerChangesPlaylist ==
  (/\ last'.op \in PlaylistOps
   /\ Authenticated(last'.token)
   /\ Exists(playlists, last'.target)
   /\ Row(playlists, last'.target).user_id # Actor.id)
    => /\ last'.status = 403
       /\ playlists' = playlists
       /\ playlist_songs' = playlist_songs

\* C5: update_playlist, delete_playlist and add_song_to_pl on an existing
\* playlist by an actor whose id is not the playlist's user_id, an Admin
\* included, answer 403 and leave its name, existence and songs unchanged.
C5_PlaylistOwnerOnly == [][OnlyOwnerChangesPlaylist]_vars

\* an admin was refused the deletion of another user's playlist
C5_Witness ==
  /\ last.op = "delete_playlist"
  /\ last.status = 403
  /\ Authenticated(last.token)
  /\ Requester.role = "Admin"
  /\ Exists(playlists, last.target)
  /\ Exists(users, Row(playlists, last.target).user_id)

\* the songs of a genre the user has no review of
Unreviewed(user, genre) ==
  {s \in songs : s.genre = genre /\ ~HasReviewed(user, s.id)}

Recommended200 ==
  /\ last.op = "get_recommendations"
  /\ last.status = 200
  /\ Authenticated(last.token)

\* C6: when the user has a review with rating >= 4 and a song of the
\* resulting most-common genre has no review by this user, the returned
\* list is the first up to 3 songs, in id order, of that genre that the
\* user has not reviewed at any rating.
C6_PersonalizedResult ==
  (/\ Recommended200
   /\ \E r \in ReviewsOf(Requester) : r.rating >= 4
   /\ Unreviewed(Requester, last.genre) # {})
    => last.result = Ids(Limit(ById(Unreviewed(Requester, last.genre)), 3))

\* the personalized branch returned a song
C6_Witness ==
  /\ Recommended200
  /\ last.detail = "personalized"
  /\ last.result # <<>>

\* the songs that have a review
ReviewedSongs == {s \in songs : \E r \in reviews : r.song_id = s.id}

InResult(id) == \E i \in 1..Len(last.result) : last.result[i] = id

\* C7: in the global-top-hits branch the returned songs are the songs with
\* the 3 highest mean ratings over all reviews, in order of descending mean
\* rating.
C7_TopHitsByMean ==
  (Recommended200 /\ last.detail = "top_hits")
    => /\ \A i, j \in 1..Len(last.result) :
            i < j => ~AvgAbove(last.result[j], last.result[i])
       /\ Len(last.result) = Min2(3, Cardinality(ReviewedSongs))
       /\ \A s \in ReviewedSongs :
            ~InResult(s.id) =>
              \A i \in 1..Len(last.result) : ~AvgAbove(s.id, last.result[i])

\* the top-hits branch returned two songs
C7_Witness ==
  /\ Recommended200
  /\ last.detail = "top_hits"
  /\ Len(last.result) >= 2

\* C8: the list get_recommendations returns has 0 to 3 elements and holds
\* no song twice, whichever branch produced it.
C8_UpToThreeDistinct ==
  Recommended200
    => /\ Len(last.result) <= 3
       /\ \A i, j \in 1..Len(last.result) :
            i # j => last.result[i] # last.result[j]
       /\ \A i \in 1..Len(last.result) : Exists(songs, last.result[i])

\* three songs were returned although more than three were candidates
C8_Witness ==
  /\ Recommended200
  /\ last.detail = "personalized"
  /\ Len(last.result) = 3
  /\ Cardinality(Unreviewed(Requester, last.genre)) > 3

\* the genres of the songs of the user's top-rated reviews, in read order
TopGenres(user) ==
  LET top == get_top_rated(user)
  IN  [i \in 1..Len(top) |-> Row(songs, top[i].song_id).genre]

FirstAt(genres, g) ==
  CHOOSE i \in 1..Len(genres) :
    genres[i] = g /\ \A j \in 1..(i - 1) : genres[j] # g

\* C9: the personalization genre occurs most often among the songs of the
\* user's reviews with rating >= 4; among the genres with the highest count
\* it is the one met first in the order those reviews are read, so the
\* store alone decides it.
C9_MostCommonGenre ==
  (Recommended200 /\ get_top_rated(Requester) # <<>>)
    => LET genres == TopGenres(Requester)
           g == last.genre
       IN  /\ Count(genres, g) > 0
           /\ \A h \in Genres \ {g} :
                \/ Count(genres, h) < Count(genres, g)
                \/ /\ Count(genres, h) = Count(genres, g)
                   /\ FirstAt(genres, g) < FirstAt(genres, h)

\* two genres share the highest count
C9_Witness ==
  /\ Recommended200
  /\ get_top_rated(Requester) # <<>>
  /\ \E h \in Genres \ {last.genre} :
       Count(TopGenres(Requester), h) = Count(TopGenres(Requester), last.genre)

MutatingOps ==
  {"create_user", "update_user", "delete_user", "add_song", "update_song",
   "delete_song", "create_playlist", "update_playlist", "delete_playlist",
   "add_song_to_pl", "create_review"}

\* NotFound and Unauthenticated (404), Conflict (400), Forbidden (403)
ErrorStatus == {400, 403, 404}

\* C10: an operation that ends in NotFound, Conflict, Forbidden or
\* Unauthenticated leaves users, songs, playlists, playlist memberships and
\* reviews exactly as they were.
C10_ErrorsLeaveStore ==
  [][(last'.op \in MutatingOps /\ last'.status \in ErrorStatus)
       => store' = store]_vars

\* a song already in the playlist was refused
C10_Witness ==
  /\ last.op = "add_song_to_pl"
  /\ last.status = 400
  /\ [playlist_id |-> last.target, song_id |-> last.arg] \in playlist_songs

\* no two songs of the catalog agree on title, singer and album
UniqueTriple ==
  \A s1, s2 \in songs : (s1.id # s2.id) => ~SameSong(s1, s2)

\* add_song of a triple that a song of the catalog has is a 400
DuplicateSongRejected ==
  (/\ last'.op = "add_song"
   /\ Authenticated(last'.token)
   /\ Actor.role = "Admin"
   /\ \E s \in songs : SameSong(s, last'.input))
    => (last'.status = 400 /\ songs' = songs)

\* C11: after any sequence of add_song, update_song and delete_song no two
\* songs have the same (title, singer, album), and add_song with the triple
\* of an existing song answers 400 whatever its genre or length.
C11_UniqueSongTriple == []UniqueTriple /\ [][DuplicateSongRejected]_vars

\* add_song was refused for a triple in the catalog with another genre
C11_Witness ==
  /\ last.op = "add_song"
  /\ last.status = 400
  /\ last.detail = "This song is already added"
  /\ \E s \in songs : SameSong(s, last.input) /\ s.genre # last.input.genre

\* no two playlists of one owner have the same name
UniquePlaylistName ==
  \A p1, p2 \in playlists :
    (p1.id # p2.id /\ p1.user_id = p2.user_id) => p1.name # p2.name

\* the acting user has a playlist of this name
UsesName(user, name) ==
  \E p \in playlists : p.user_id = user.id /\ p.name = name

\* create_playlist, and update_playlist on a playlist of the actor: a 400
\* without a change when the actor uses the name, and otherwise a success,
\* whoever else uses the name
PlaylistNameDecides ==
  /\ (last'.op = "create_playlist" /\ Authenticated(last'.token))
       => IF UsesName(Actor, last'.input.name)
          THEN last'.status = 400 /\ playlists' = playlists
          ELSE /\ last'.status = 200
               /\ \E p \in playlists' \ playlists :
                    /\ playlists' = playlists \cup {p}
                    /\ p.name = last'.input.name
                    /\ p.user_id = Actor.id
  /\ (/\ last'.op = "update_playlist"
      /\ Authenticated(last'.token)
      /\ Exists(playlists, last'.target)
      /\ Row(playlists, last'.target).user_id = Actor.id)
       => IF UsesName(Actor, last'.input.name)
          THEN last'.status = 400 /\ playlists' = playlists
          ELSE /\ last'.status = 200
               /\ Row(playlists', last'.target).name = last'.input.name

\* C12: after any sequence of create_playlist, update_playlist and
\* delete_playlist no two playlists of one user_id have the same name;
\* create_playlist and update_playlist with a name the acting owner uses
\* answer 400, and the same name under another owner is accepted.
C12_UniquePlaylistNamePerOwner ==
  []UniquePlaylistName /\ [][PlaylistNameDecides]_vars

\* a playlist was renamed to a name that a playlist of the other user has
C12_Witness ==
  /\ last.op = "update_playlist"
  /\ last.status = 200
  /\ \E p1, p2 \in playlists :
       /\ p1.id = last.target
       /\ p1.name = last.input.name
       /\ p2.name = p1.name
       /\ p2.user_id # p1.user_id

\* no two users have the same username
UniqueUsername ==
  \A u1, u2 \in users : (u1.id # u2.id) => u1.username # u2.username

\* another user than the target holds the username
HeldByAnother(username, user_id) ==
  \E u \in users : u.id # user_id /\ u.username = username

\* register, and a permitted update_user of an existing user, with a
\* username that another user holds: a 400 and no user record changes
TakenUsernameConflict ==
  /\ (last'.op = "create_user" /\ HeldByAnother(last'.input.username, NULL))
       => (last'.status = 400 /\ users' = users)
  /\ (/\ last'.op = "update_user"
      /\ Authenticated(last'.token)
      /\ SelfOrAdmin(Actor, last'.target)
      /\ Exists(users, last'.target)
      /\ HeldByAnother(last'.input.username, last'.target))
       => (last'.status = 400 /\ users' = users)

\* C13: after any sequence of register, update_user and delete_user no two
\* users have the same username, and taking a username that another user
\* holds, by register or by update_user, ends in a Conflict (400) and
\* changes no user record.
C13_UniqueUsername == []UniqueUsername /\ [][TakenUsernameConflict]_vars

\* register was refused for a username that is taken
C13_Witness ==
  /\ last.op = "create_user"
  /\ last.status = 400
  /\ Authenticated(last.input.username)

\* the operations that take a bearer token
CredentialOps == (MutatingOps \ {"create_user"}) \cup {"get_recommendations"}

\* the rows a step inserted into a table
Added(before, after) == {r \in after : ~Exists(before, r.id)}

\* a request with a token: without a user of that username it is the
\* authentication error and nothing changes; with one, the rows it creates
\* carry that user's id and that user's role decides what it may do
TokenResolves ==
  (last'.op \in CredentialOps)
    => IF ~(\E u \in users : u.username = last'.token)
       THEN /\ last'.status = 404
            /\ last'.detail = "Invalid credentials"
            /\ store' = store
       ELSE \E u \in users :
              /\ u.username = last'.token
              /\ last'.detail # "Invalid credentials"
              /\ \A p \in Added(playlists, playlists') : p.user_id = u.id
              /\ \A r \in Added(reviews, reviews') : r.user_id = u.id
              /\ (last'.op \in SongOps /\ last'.status = 200)
                   => u.role = "Admin"

\* C14: every operation that takes a credential acts as the user whose
\* username equals the token; when no user has that username it fails with
\* the authentication error (404 "Invalid credentials") before any other
\* check and without a change to the store, for every mutating endpoint
\* and for get_recommendations.
C14_TokenResolvesFirst == [][TokenResolves]_vars

\* a token of no user was refused on a playlist that exists and belongs to
\* a registered user
C14_Witness ==
  /\ last.op = "delete_playlist"
  /\ last.status = 404
  /\ last.detail = "Invalid credentials"
  /\ ~Authenticated(last.token)
  /\ Exists(playlists, last.target)
  /\ Exists(users, Row(playlists, last.target).user_id)

\* the song ids that reviews carry, each one a group of the ranking
ReviewedIds == {r.song_id : r \in reviews}

ResultSet == {last.result[i] : i \in 1..Len(last.result)}

\* the result is the songs of three groups of highest mean rating (of all
\* groups when there are fewer), each song once
IsTopHits ==
  /\ Cardinality(ResultSet) = Len(last.result)
  /\ \E top \in SUBSET ReviewedIds :
       /\ Cardinality(top) = Min2(3, Cardinality(ReviewedIds))
       /\ \A g \in top : \A h \in ReviewedIds \ top : ~AvgAbove(h, g)
       /\ ResultSet = {s.id : s \in {x \in songs : x.id \in top}}

\* the result is the first up to three songs of the catalog, in id order
IsFirstThree ==
  /\ Len(last.result) = Min2(3, Cardinality(songs))
  /\ \A i \in 1..Len(last.result) : Exists(songs, last.result[i])
  /\ \A i, j \in 1..Len(last.result) :
       i < j => last.result[i] < last.result[j]
  /\ \A s \in songs :
       ~InResult(s.id) => \A i \in 1..Len(last.result) : last.result[i] < s.id

\* C15: for a requesting user without reviews get_recommendations never
\* errors: it returns the global top-hits songs when a review exists in the
\* system, and otherwise the first up to 3 songs of the catalog in storage
\* order (the empty list for an empty catalog).
C15_NoReviewsNeverErrors ==
  (/\ last.op = "get_recommendations"
   /\ Authenticated(last.token)
   /\ ReviewsOf(Requester) = {})
    => /\ last.status = 200
       /\ IF reviews # {} THEN IsTopHits ELSE IsFirstThree

\* a user without reviews got three of the four songs others have reviewed
C15_Witness ==
  /\ Recommended200
  /\ ReviewsOf(Requester) = {}
  /\ Cardinality(ReviewedSongs) = 4
  /\ Len(last.result) = 3
  /\ \E s \in ReviewedSongs :
       ~InResult(s.id) /\ \A i \in 1..3 : AvgAbove(last.result[i], s.id)

\* the user has a top-rated review and has reviewed every song of the
\* genre that get_recommendations derived from them
GenreExhausted ==
  /\ Recommended200
  /\ \E r \in ReviewsOf(Requester) : r.rating >= 4
  /\ Unreviewed(Requester, last.genre) = {}

\* C16: the top-hits and fallback branches do not filter by the requester's
\* reviews: when the user has top-rated reviews and no unreviewed song of
\* the most-common genre remains, the result is the global top hits as they
\* are for anyone, and in a reachable state it holds a song the user has
\* reviewed.
C16_HitsNotFiltered == GenreExhausted => IsTopHits

\* every song of the list is one the requester has reviewed, while a song
\* of another genre that the requester has not reviewed is left out
C16_Witness ==
  /\ GenreExhausted
  /\ last.result # <<>>
  /\ \A i \in 1..Len(last.result) : HasReviewed(Requester, last.result[i])
  /\ \E s \in songs : ~HasReviewed(Requester, s.id) /\ ~InResult(s.id)

DeleteOps == {"delete_song", "delete_user"}

\* a successful deletion removes the one row and leaves every review,
\* playlist and playlist membership as it was
DeleteKeepsReferences ==
  (last'.op \in DeleteOps /\ last'.status = 200)
    => /\ reviews' = reviews
       /\ playlists' = playlists
       /\ playlist_songs' = playlist_songs
       /\ IF last'.op = "delete_song"
          THEN songs' = songs \ {Row(songs, last'.target)} /\ users' = users
          ELSE users' = users \ {Row(users, last'.target)} /\ songs' = songs

\* C17: delete_song and delete_user by a permitted actor remove only the
\* targeted song or user and do not cascade: every review, playlist
\* membership and playlist that referenced it is still in the store.
C17_DeleteDoesNotCascade == [][DeleteKeepsReferences]_vars

\* a successful deletion removes the one row and detaches what referenced
\* it: the reviews of a deleted song stay with song_id NULL and its
\* memberships go; the playlists of a deleted user stay with user_id NULL
\* and the reviews the user wrote stay as they are
DeleteDetaches ==
  (last'.op \in DeleteOps /\ last'.status = 200)
    => IF last'.op = "delete_song"
       THEN /\ songs' = songs \ {Row(songs, last'.target)}
            /\ users' = users /\ playlists' = playlists
            /\ \A r \in reviews :
                 \E q \in reviews' :
                   /\ q.id = r.id /\ q.user_id = r.user_id
                   /\ q.rating = r.rating
                   /\ q.song_id = IF r.song_id = last'.target THEN NULL
                                  ELSE r.song_id
            /\ Cardinality(reviews') = Cardinality(reviews)
            /\ playlist_songs' =
                 {m \in playlist_songs : m.song_id # last'.target}
       ELSE /\ users' = users \ {Row(users, last'.target)}
            /\ songs' = songs /\ reviews' = reviews
            /\ playlist_songs' = playlist_songs
            /\ \A p \in playlists :
                 \E q \in playlists' :
                   /\ q.id = p.id /\ q.name = p.name
                   /\ q.user_id = IF p.user_id = last'.target THEN NULL
                                  ELSE p.user_id
            /\ Cardinality(playlists') = Cardinality(playlists)

\* C17 as the code has it: no review and no playlist is deleted with a song
\* or a user, but the references to the deleted row are cleared and the
\* playlist memberships of a deleted song are removed.
C17_DeleteDetachesReferences == [][DeleteDetaches]_vars

\* a song was deleted, its review is left without a song and the playlist
\* it was in is empty
C17_Witness ==
  /\ last.op = "delete_song"
  /\ last.status = 200
  /\ \E r \in reviews : r.song_id = NULL
  /\ playlists # {}
  /\ playlist_songs = {}

\* C18: in every reachable state get_recommendations by an authenticated
\* user completes and returns a list; it never fails, also when a song the
\* user rated 4 or more has been deleted since.
C18_RecommendationsNeverFail ==
  (last.op = "get_recommendations" /\ Authenticated(last.token))
    => last.status = 200

\* a list was returned to a user whose low-rated song has been deleted
C18_Witness ==
  /\ Recommended200
  /\ \E r \in ReviewsOf(Requester) : r.song_id = NULL /\ r.rating < 4

\* a successful register: the new user's id is on no review and no playlist
NewUserOwnsNothing ==
  (last'.op = "create_user" /\ last'.status = 200)
    => \E u \in users' :
         /\ ~Exists(users, u.id)
         /\ u.username = last'.input.username
         /\ \A r \in reviews' : r.user_id # u.id
         /\ \A p \in playlists' : p.user_id # u.id

\* C19: a user newly created by register has no reviews and no playlists:
\* right after a successful register no review and no playlist carries the
\* new user's id, also when users were deleted earlier.
C19_NewUserOwnsNothing == [][NewUserOwnsNothing]_vars

\* a user was registered after another one was deleted, and nothing in the
\* store carries the new id
C19_Witness ==
  /\ last.op = "create_user"
  /\ last.status = 200
  /\ \E r \in reviews : ~Exists(users, r.user_id)
  /\ \A r \in reviews : r.user_id # last.target

\* C20: a token that login returned for a user never authenticates another
\* user later: after any sequence of register, update_user and delete_user
\* the token resolves to the user id it was issued for, or to no user.
C20_TokenKeepsUser ==
  \A t \in issued :
    \A u \in users : (u.username = t[1]) => (u.id = t[2])

\* a token that was issued resolves to no user any more
C20_Witness ==
  /\ last.op \in UserOps
  /\ last.status = 200
  /\ \E t \in issued : ~Authenticated(t[1])

====
